---- MODULE Spec2Model ----
(***************************************************************************)
(* A model of filmstro_optionsParser: the option registry (OptionsParser:: *)
(* addOption and the public fields of Option) and the argument scan of     *)
(* OptionsParser::parseArguments with OptionsParser::findOption.           *)
(*                                                                         *)
(* A juce::String is a sequence of one-character strings; a literal of the *)
(* code ("Unknown option: ", " | ", the newline) is one element holding    *)
(* the literal's text, so that concatenation is sequence concatenation.    *)
(* Indices are 1-based: pos = 1 is arguments [0] of the code.              *)
(***************************************************************************)
EXTENDS Integers, Sequences, FiniteSets, TLC

\* ------------------------------------------------------------------ bounds
\* the registry holds at most MaxOptions options
MaxOptions == 2
\* a token list of Spec and SpecRegister holds at most MaxArgs tokens
MaxArgs == 2
\* a token list of SpecLong holds at most MaxLongArgs tokens
MaxLongArgs == 4
\* SpecRepeat calls parseArguments at most MaxCalls times on one parser
MaxCalls == 2
\* a token list of SpecRepeat holds at most MaxRepeatArgs tokens
MaxRepeatArgs == 2

\* ------------------------------------------------------------ input sets
\* spellings the caller gives to short and long forms (<<>> is "none")
ShortNames == {<< >>, <<"n">>}
LongNames == {<<"n">>}
\* default values the caller stores into Option::value before parsing
DefaultValues == {<<"d">>}
\* the tokens of the argument lists: the end-of-arguments marker, a short
\* and a long flag, a relative and an absolute bare token
TokenSet == {<<"-", "-">>, <<"-", "n">>, <<"-", "-", "n">>, <<"x">>, <<"/", "y">>}
\* the tokens of the longer argument lists of SpecLong
LongTokenSet == {<<"-", "-">>, <<"-", "n">>, <<"-">>, <<"x">>}
\* the tokens of the argument lists of SpecRepeat
RepeatTokenSet == {<<"-", "n">>, <<"x">>}

\* ------------------------------------------------------------- the types
\* enum OptionType
OptString == "OptString"
OptFile == "OptFile"
OptInteger == "OptInteger"
OptDouble == "OptDouble"
OptBoolean == "OptBoolean"
OptionType == {OptString, OptFile, OptInteger, OptDouble, OptBoolean}
\* the types the caller registers options with
TypeInputs == {OptString, OptFile, OptBoolean}

\* juce::var: void (the default-constructed value), a bool or a string
VarVoid == [kind |-> "void", str |-> << >>]
VarBool(b) == [kind |-> "bool", str |-> IF b THEN <<"1">> ELSE <<"0">>]
VarString(s) == [kind |-> "string", str |-> s]

\* ------------------------------------------------------- string helpers
\* juce::String::startsWith
StartsWith(s, prefix) ==
    /\ Len(s) >= Len(prefix)
    /\ SubSeq(s, 1, Len(prefix)) = prefix

\* juce::String::substring (start): the characters from 0-based index start on
Substring(s, start) == SubSeq(s, start + 1, Len(s))

\* juce::File::isAbsolutePath on a POSIX build: a leading separator or tilde
IsAbsolutePath(path) == Len(path) > 0 /\ path[1] \in {"/", "~"}

\* juce::File::getCurrentWorkingDirectory ().getFullPathName ()
CurrentWorkingDirectory == <<"/", "w">>

\* File::getCurrentWorkingDirectory().getChildFile (arg).getFullPathName()
\* for a relative arg without "." or ".." parts
GetChildFile(arg) == CurrentWorkingDirectory \o <<"/">> \o arg

\* the literal "--" of parseArguments
EndMarker == <<"-", "-">>

\* juce::NewLine, one element: JUCE's default line break "\r\n"
NewLine == "\r\n"

VARIABLES
    options,              \* OptionsParser::options, the registry, in order
    errorMessage,         \* OptionsParser::errorMessage
    pc,                   \* "build" | "scan" | "done": where the caller is
    arguments,            \* parseArguments: the argument list of the call
    failOnUnknownOption,  \* parseArguments: the strict-mode parameter
    pos,                  \* parseArguments: the loop index (1-based)
    ok,                   \* parseArguments: the local ok, returned at the end
    endOfArguments,       \* parseArguments: the local endOfArguments
    calls,                \* number of parseArguments calls started so far
    added,                \* the arguments of the latest addOption call
    entry,                \* the registry as it was when the call was entered
    previousMessage,      \* errorMessage as it was when the call was entered
    handled               \* per scanned token of the call: how it was handled

vars == <<options, errorMessage, pc, arguments, failOnUnknownOption, pos, ok,
          endOfArguments, calls, added, entry, previousMessage, handled>>

parseLocals == <<arguments, failOnUnknownOption, pos, ok, endOfArguments,
                 calls, entry, previousMessage, handled>>

\* ------------------------------------------------------------ the Option
\* Option::Option (optId) followed by the assignments of addOption: the
\* parameter req is not stored, required keeps the constructor's false
NewOption(optId, optArg, type, req) ==
    [optionId |-> optId, arg |-> optArg, longArg |-> << >>,
     required |-> FALSE, type |-> type, value |-> VarVoid, isSet |-> FALSE]

\* setValue storing the value without marking the option set
SetValueOnly(o, v) == [o EXCEPT !.value = v]

\* Option::setValue
SetValue(o, v) == [o EXCEPT !.value = v, !.isSet = TRUE]

\* Option::isOptionSet
IsOptionSet(o) == o.isSet

\* Option::getOptionName
GetOptionName(o) ==
    IF o.arg = << >>
    THEN IF o.longArg # << >> THEN o.longArg ELSE o.optionId
    ELSE IF o.longArg = << >> THEN o.arg
         ELSE o.arg \o <<" | ">> \o o.longArg

\* OptionsParser::appendErrorMessage
AppendErrorMessage(buffer, message) ==
    IF buffer # << >> THEN buffer \o <<NewLine>> \o message
    ELSE buffer \o message

\* ---------------------------------------------------------- findOption
\* "for (Option* o : options) if (cond) return o": the first of the
\* indices whose option satisfies cond, 0 for the nullptr after the loop
FirstOption(matching) ==
    IF matching = {} THEN 0
    ELSE CHOOSE i \in matching : \A j \in matching : i <= j

\* the branch of findOption the argument takes
FindBranch(argument, endOfArgs) ==
    IF ~endOfArgs /\ StartsWith(argument, <<"-", "-">>) THEN "long"
    ELSE IF ~endOfArgs /\ StartsWith(argument, <<"-">>) THEN "short"
    ELSE "positional"

\* findOption trying the short forms and the positional rule for a "--"
\* token that spells no long form
FindOptionFallingThrough(opts, argument, endOfArgs) ==
    LET branch == FindBranch(argument, endOfArgs)
        long == {i \in 1..Len(opts) : opts[i].longArg = Substring(argument, 2)}
        short == {i \in 1..Len(opts) :
                     opts[i].arg = Substring(argument, IF branch = "long" THEN 2 ELSE 1)}
        free == {i \in 1..Len(opts) :
                    /\ opts[i].arg = << >>
                    /\ opts[i].longArg = << >>
                    /\ ~IsOptionSet(opts[i])}
    IN  IF branch = "long" /\ long # {}
        THEN [found |-> FirstOption(long), opts |-> opts]
        ELSE IF branch # "positional" /\ short # {}
        THEN [found |-> FirstOption(short), opts |-> opts]
        ELSE LET i == FirstOption(free)
             IN  IF i = 0 THEN [found |-> 0, opts |-> opts]
                 ELSE [found |-> i,
                       opts |-> [opts EXCEPT ![i] = SetValue(opts[i], VarString(argument))]]

\* findOption going on through the registry after the first free positional
\* option, storing the token into every free one
FindOptionFillingEveryFree(opts, argument, endOfArgs) ==
    LET branch == FindBranch(argument, endOfArgs)
        long == {i \in 1..Len(opts) : opts[i].longArg = Substring(argument, 2)}
        short == {i \in 1..Len(opts) : opts[i].arg = Substring(argument, 1)}
        free == {i \in 1..Len(opts) :
                    /\ opts[i].arg = << >>
                    /\ opts[i].longArg = << >>
                    /\ ~IsOptionSet(opts[i])}
    IN  IF branch = "long"
        THEN [found |-> FirstOption(long), opts |-> opts]
        ELSE IF branch = "short"
        THEN [found |-> FirstOption(short), opts |-> opts]
        ELSE [found |-> FirstOption(free),
              opts |-> [i \in 1..Len(opts) |->
                           IF i \in free THEN SetValue(opts[i], VarString(argument))
                           ELSE opts[i]]]

\* findOption passing over the options that are already set when it looks
\* for a flag, as its positional rule does
FindOptionSkippingSet(opts, argument, endOfArgs) ==
    LET branch == FindBranch(argument, endOfArgs)
        long == {i \in 1..Len(opts) :
                    opts[i].longArg = Substring(argument, 2) /\ ~IsOptionSet(opts[i])}
        short == {i \in 1..Len(opts) :
                     opts[i].arg = Substring(argument, 1) /\ ~IsOptionSet(opts[i])}
        free == {i \in 1..Len(opts) :
                    /\ opts[i].arg = << >>
                    /\ opts[i].longArg = << >>
                    /\ ~IsOptionSet(opts[i])}
    IN  IF branch = "long"
        THEN [found |-> FirstOption(long), opts |-> opts]
        ELSE IF branch = "short"
        THEN [found |-> FirstOption(short), opts |-> opts]
        ELSE LET i == FirstOption(free)
             IN  IF i = 0 THEN [found |-> 0, opts |-> opts]
                 ELSE [found |-> i,
                       opts |-> [opts EXCEPT ![i] = SetValue(opts[i], VarString(argument))]]

\* OptionsParser::findOption: the index of the returned option (0 when it
\* returns nullptr) and the registry after its setValue on a free
\* positional option
FindOption(opts, argument, endOfArgs) ==
    LET branch == FindBranch(argument, endOfArgs)
        long == {i \in 1..Len(opts) : opts[i].longArg = Substring(argument, 2)}
        short == {i \in 1..Len(opts) : opts[i].arg = Substring(argument, 1)}
        free == {i \in 1..Len(opts) :
                    /\ opts[i].arg = << >>
                    /\ opts[i].longArg = << >>
                    /\ ~IsOptionSet(opts[i])}
    IN  IF branch = "long"
        THEN [found |-> FirstOption(long), opts |-> opts]
        ELSE IF branch = "short"
        THEN [found |-> FirstOption(short), opts |-> opts]
        ELSE LET i == FirstOption(free)
             IN  IF i = 0 THEN [found |-> 0, opts |-> opts]
                 ELSE [found |-> i,
                       opts |-> [opts EXCEPT ![i] = SetValue(opts[i], VarString(argument))]]

\* ------------------------------------------------------ parseArguments
\* the record of one handled token: kind is what the scan did with it and
\* opt the index of the option concerned (0 for none)
Handled(kind, opt) == [kind |-> kind, opt |-> opt]

\* the path a FilePath option stores for the consumed token
NormalizedPath(arg) ==
    IF IsAbsolutePath(arg) THEN arg ELSE GetChildFile(arg)

\* the state of a running call
ScanState ==
    [options |-> options, errorMessage |-> errorMessage, ok |-> ok,
     endOfArguments |-> endOfArguments, pos |-> pos, handled |-> handled]

\* lines 97-100: the token is "--"
MarkerStep(st) ==
    [st EXCEPT !.endOfArguments = TRUE, !.pos = st.pos + 1,
               !.handled = Append(st.handled, Handled("marker", 0))]

\* SetBoolean also stepping over the token after the flag
SetBooleanSkippingNext(st, opts, i) ==
    [st EXCEPT
        !.options = [opts EXCEPT ![i] = SetValue(opts[i], VarBool(TRUE))],
        !.pos = st.pos + 2,
        !.handled = Append(st.handled, Handled("flag", i))]

\* lines 103-105: the unset option i is Boolean
SetBoolean(st, opts, i) ==
    [st EXCEPT
        !.options = [opts EXCEPT ![i] = SetValue(opts[i], VarBool(TRUE))],
        !.pos = st.pos + 1,
        !.handled = Append(st.handled, Handled("flag", i))]

\* ConsumeValue without the ++pos: the stored token is scanned as well
ConsumeValueRescanning(st, opts, i, v) ==
    [st EXCEPT
        !.options = [opts EXCEPT ![i] = SetValue(opts[i], VarString(v))],
        !.pos = st.pos + 1,
        !.handled = Append(st.handled, Handled("flag", i))]

\* lines 108-114 and 123: the unset option i takes the next token, stored
\* as v, and the ++pos steps over it
ConsumeValue(st, opts, i, v) ==
    [st EXCEPT
        !.options = [opts EXCEPT ![i] = SetValue(opts[i], VarString(v))],
        !.pos = st.pos + 2,
        !.handled = st.handled \o <<Handled("flag", i), Handled("value", i)>>]

\* MissingArgument leaving ok as it was
MissingArgumentKeepingOk(st, opts, i, message) ==
    [st EXCEPT
        !.options = opts,
        !.errorMessage = AppendErrorMessage(st.errorMessage, message),
        !.pos = st.pos + 1,
        !.handled = Append(st.handled, Handled("missing", i))]

\* lines 116-119 and 125-128: no token follows the flag of the unset
\* option i
MissingArgument(st, opts, i, message) ==
    [st EXCEPT
        !.options = opts,
        !.errorMessage = AppendErrorMessage(st.errorMessage, message),
        !.ok = FALSE,
        !.pos = st.pos + 1,
        !.handled = Append(st.handled, Handled("missing", i))]

\* lines 102-130: findOption returned option i of the registry opts (as
\* findOption left it) for the token at st.pos
AssignOption(args, st, opts, i) ==
    LET tok == args[st.pos]
        hasNext == st.pos + 1 <= Len(args)
    IN
    IF ~IsOptionSet(opts[i])
    THEN
        IF opts[i].type = OptBoolean
        THEN SetBoolean(st, opts, i)
        ELSE IF opts[i].type = OptFile
        THEN
            IF hasNext
            THEN ConsumeValue(st, opts, i, NormalizedPath(args[st.pos + 1]))
            ELSE MissingArgument(st, opts, i, <<"Missing path for argument ">> \o tok)
        ELSE
            IF hasNext
            THEN ConsumeValue(st, opts, i, args[st.pos + 1])
            ELSE MissingArgument(st, opts, i, <<"Missing value for argument ">> \o tok)
    ELSE [st EXCEPT
            !.options = opts,
            !.pos = st.pos + 1,
            !.handled = Append(st.handled,
                Handled(IF FindBranch(tok, st.endOfArguments) = "positional"
                        THEN "positional" ELSE "absorbed", i))]

\* UnknownOption failing the call in lenient mode too
UnknownOptionAlwaysFailing(args, fail, st) ==
    [st EXCEPT
        !.errorMessage = AppendErrorMessage(st.errorMessage,
            (IF fail THEN <<"Unknown option: ">>
             ELSE <<"Ignoring unknown option: ">>) \o args[st.pos]),
        !.ok = FALSE,
        !.pos = st.pos + 1,
        !.handled = Append(st.handled, Handled("unknown", 0))]

\* lines 132-140: findOption returned nullptr for the token at st.pos
UnknownOption(args, fail, st) ==
    IF fail
    THEN [st EXCEPT
            !.errorMessage = AppendErrorMessage(st.errorMessage,
                <<"Unknown option: ">> \o args[st.pos]),
            !.ok = FALSE,
            !.pos = st.pos + 1,
            !.handled = Append(st.handled, Handled("unknown", 0))]
    ELSE [st EXCEPT
            !.errorMessage = AppendErrorMessage(st.errorMessage,
                <<"Ignoring unknown option: ">> \o args[st.pos]),
            !.pos = st.pos + 1,
            !.handled = Append(st.handled, Handled("unknown", 0))]

\* one iteration of the for loop over the arguments, the ++pos of the loop
\* header included
LoopBody(args, fail, st) ==
    IF args[st.pos] = EndMarker THEN MarkerStep(st)
    ELSE LET r == FindOption(st.options, args[st.pos], st.endOfArguments)
         IN  IF r.found # 0 THEN AssignOption(args, st, r.opts, r.found)
             ELSE UnknownOption(args, fail, st)

\* the for loop over the arguments from st.pos to the end of the list
RECURSIVE RunScan(_, _, _)
RunScan(args, fail, st) ==
    IF st.pos > Len(args) THEN st
    ELSE RunScan(args, fail, LoopBody(args, fail, st))

\* CheckRequired testing required alone, not isOptionSet
RECURSIVE CheckRequiredIgnoringSet(_, _, _, _)
CheckRequiredIgnoringSet(opts, i, buffer, okSoFar) ==
    IF i > Len(opts) THEN [errorMessage |-> buffer, ok |-> okSoFar]
    ELSE IF opts[i].required
    THEN CheckRequiredIgnoringSet(opts, i + 1,
            AppendErrorMessage(buffer,
                <<"Argument is required: ">> \o GetOptionName(opts[i])),
            FALSE)
    ELSE CheckRequiredIgnoringSet(opts, i + 1, buffer, okSoFar)

\* CheckRequired reporting a missing option without failing the call
RECURSIVE CheckRequiredKeepingOk(_, _, _, _)
CheckRequiredKeepingOk(opts, i, buffer, okSoFar) ==
    IF i > Len(opts) THEN [errorMessage |-> buffer, ok |-> okSoFar]
    ELSE IF opts[i].required /\ ~IsOptionSet(opts[i])
    THEN CheckRequiredKeepingOk(opts, i + 1,
            AppendErrorMessage(buffer,
                <<"Argument is required: ">> \o GetOptionName(opts[i])),
            okSoFar)
    ELSE CheckRequiredKeepingOk(opts, i + 1, buffer, okSoFar)

\* the loop "check if all requireds are met" from option i on: the error
\* buffer and ok after it
RECURSIVE CheckRequired(_, _, _, _)
CheckRequired(opts, i, buffer, okSoFar) ==
    IF i > Len(opts) THEN [errorMessage |-> buffer, ok |-> okSoFar]
    ELSE IF opts[i].required /\ ~IsOptionSet(opts[i])
    THEN CheckRequired(opts, i + 1,
            AppendErrorMessage(buffer,
                <<"Argument is required: ">> \o GetOptionName(opts[i])),
            FALSE)
    ELSE CheckRequired(opts, i + 1, buffer, okSoFar)

\* ------------------------------------------------------------- the state
Init ==
    /\ options = << >>
    /\ errorMessage = << >>
    /\ pc = "build"
    /\ arguments = << >>
    /\ failOnUnknownOption = TRUE
    /\ pos = 1
    /\ ok = TRUE
    /\ endOfArguments = FALSE
    /\ calls = 0
    /\ added = << >>
    /\ entry = << >>
    /\ previousMessage = << >>
    /\ handled = << >>

\* the identifier the caller gives to the k-th option it registers
OptionId(k) == <<"o", ToString(k)>>

\* OptionsParser::addOption
AddOption(optId, optArg, type, req) ==
    /\ pc = "build"
    /\ Len(options) < MaxOptions
    /\ options' = Append(options, NewOption(optId, optArg, type, req))
    /\ added' = <<optId, optArg, type, req>>
    /\ UNCHANGED <<errorMessage, pc, parseLocals>>

\* the caller's "option->longArg = ..." on the handle addOption returned
SetLongArg(name) ==
    /\ pc = "build"
    /\ Len(options) > 0
    /\ options[Len(options)].longArg = << >>
    /\ options' = [options EXCEPT ![Len(options)].longArg = name]
    /\ UNCHANGED <<errorMessage, pc, parseLocals, added>>

\* the caller's "option->required = true" on the handle addOption returned
SetRequired ==
    /\ pc = "build"
    /\ Len(options) > 0
    /\ ~options[Len(options)].required
    /\ options' = [options EXCEPT ![Len(options)].required = TRUE]
    /\ UNCHANGED <<errorMessage, pc, parseLocals, added>>

\* the caller's "option->value = ..." (a default) on the handle addOption
\* returned
SetDefault(v) ==
    /\ pc = "build"
    /\ Len(options) > 0
    /\ options[Len(options)].value = VarVoid
    /\ options' = [options EXCEPT ![Len(options)].value = VarString(v)]
    /\ UNCHANGED <<errorMessage, pc, parseLocals, added>>

\* the token lists of at most n tokens over the set tokens
ArgLists(tokens, n) == UNION {[1..k -> tokens] : k \in 0..n}

\* ParseArguments without the errorMessage.clear () of line 92
ParseArgumentsKeepingBuffer(args, fail) ==
    /\ errorMessage' = errorMessage
    /\ ok' = TRUE
    /\ endOfArguments' = FALSE
    /\ pos' = 1
    /\ arguments' = args
    /\ failOnUnknownOption' = fail
    /\ pc' = "scan"
    /\ calls' = calls + 1
    /\ entry' = options
    /\ previousMessage' = errorMessage
    /\ handled' = << >>
    /\ UNCHANGED <<options, added>>

\* parseArguments, lines 92-94: the entry of a call
ParseArguments(args, fail) ==
    /\ errorMessage' = << >>
    /\ ok' = TRUE
    /\ endOfArguments' = FALSE
    /\ pos' = 1
    /\ arguments' = args
    /\ failOnUnknownOption' = fail
    /\ pc' = "scan"
    /\ calls' = calls + 1
    /\ entry' = options
    /\ previousMessage' = errorMessage
    /\ handled' = << >>
    /\ UNCHANGED <<options, added>>

\* parseArguments, lines 96-141: one iteration of the scan
ScanStep ==
    /\ pc = "scan"
    /\ pos <= Len(arguments)
    /\ LET st == LoopBody(arguments, failOnUnknownOption, ScanState)
       IN  /\ options' = st.options
           /\ errorMessage' = st.errorMessage
           /\ ok' = st.ok
           /\ endOfArguments' = st.endOfArguments
           /\ pos' = st.pos
           /\ handled' = st.handled
    /\ UNCHANGED <<pc, arguments, failOnUnknownOption, calls, added, entry,
                   previousMessage>>

\* parseArguments, lines 143-151: the required check and the return
RequiredCheck ==
    /\ pc = "scan"
    /\ pos > Len(arguments)
    /\ LET r == CheckRequired(options, 1, errorMessage, ok)
       IN  /\ errorMessage' = r.errorMessage
           /\ ok' = r.ok
    /\ pc' = "done"
    /\ UNCHANGED <<options, arguments, failOnUnknownOption, pos, endOfArguments,
                   calls, added, entry, previousMessage, handled>>

\* the whole of parseArguments on the registry opts: the registry, the
\* error buffer and the returned ok after the call
ParseResult(opts, args, fail) ==
    LET st == RunScan(args, fail,
                [options |-> opts, errorMessage |-> << >>, ok |-> TRUE,
                 endOfArguments |-> FALSE, pos |-> 1, handled |-> << >>])
        r == CheckRequired(st.options, 1, st.errorMessage, st.ok)
    IN  [options |-> st.options, errorMessage |-> r.errorMessage, ok |-> r.ok]

\* the caller registers an option, leaving req to its default or not
Register(types, reqs) ==
    \E optArg \in ShortNames, type \in types, req \in reqs :
        AddOption(OptionId(Len(options) + 1), optArg, type, req)

\* the caller parses one token list of at most n tokens over tokens
Parse(tokens, n) ==
    \E args \in ArgLists(tokens, n), fail \in BOOLEAN : ParseArguments(args, fail)

\* a parser is built, with req left to its default false, and parses one
\* argument list
Next ==
    \/ Register(TypeInputs, {FALSE})
    \/ \E name \in LongNames : SetLongArg(name)
    \/ SetRequired
    \/ \E v \in DefaultValues : SetDefault(v)
    \/ pc = "build" /\ Parse(TokenSet, MaxArgs)
    \/ ScanStep
    \/ RequiredCheck

Spec == Init /\ [][Next]_vars

\* a parser whose options keep their default values and are not required
\* parses one longer argument list
NextLong ==
    \/ Register(TypeInputs, {FALSE})
    \/ \E name \in LongNames : SetLongArg(name)
    \/ pc = "build" /\ Parse(LongTokenSet, MaxLongArgs)
    \/ ScanStep
    \/ RequiredCheck

SpecLong == Init /\ [][NextLong]_vars

\* a parser is built by addOption alone, of every type and with req given,
\* and parses one argument list
NextRegister ==
    \/ Register(OptionType, BOOLEAN)
    \/ pc = "build" /\ Parse(TokenSet, MaxArgs)
    \/ ScanStep
    \/ RequiredCheck

SpecRegister == Init /\ [][NextRegister]_vars

\* a parser is built and parses up to MaxCalls argument lists in a row
NextRepeat ==
    \/ Register(TypeInputs, {FALSE})
    \/ \E name \in LongNames : SetLongArg(name)
    \/ SetRequired
    \/ pc \in {"build", "done"} /\ calls < MaxCalls /\ Parse(RepeatTokenSet, MaxRepeatArgs)
    \/ ScanStep
    \/ RequiredCheck

SpecRepeat == Init /\ [][NextRepeat]_vars

\* ========================================================== the claims
\* the messages of an error buffer: its parts between the newlines
RECURSIVE SplitLines(_)
SplitLines(buffer) ==
    IF buffer = << >> THEN << >>
    ELSE LET ends == {k \in 1..Len(buffer) : buffer[k] = NewLine}
             k == IF ends = {} THEN Len(buffer) + 1
                  ELSE CHOOSE e \in ends : \A f \in ends : e <= f
         IN  <<SubSeq(buffer, 1, k - 1)>> \o
             (IF k > Len(buffer) THEN << >>
              ELSE SplitLines(SubSeq(buffer, k + 1, Len(buffer))))

\* the options a call leaves required and unset, in registry order
MissingRequired(opts) == SelectSeq(opts, LAMBDA o : o.required /\ ~o.isSet)

\* the tokens up to index k for which the scan appended a message
ScanMessagesUpTo(k) ==
    Cardinality({j \in 1..k : handled[j].kind \in {"unknown", "missing"}})

\* the call has returned
Done == pc = "done"

\* an option with neither a short nor a long form
Positional(o) == o.arg = << >> /\ o.longArg = << >>

\* the state of the call on entry, and the state in which the scan reaches
\* index k (its pos is k unless the token at k was consumed as a value)
EntryState ==
    [options |-> entry, errorMessage |-> << >>, ok |-> TRUE,
     endOfArguments |-> FALSE, pos |-> 1, handled |-> << >>]

RECURSIVE ScanTo(_, _, _, _)
ScanTo(args, fail, st, k) ==
    IF st.pos >= k THEN st ELSE ScanTo(args, fail, LoopBody(args, fail, st), k)

StateAt(k) == ScanTo(arguments, failOnUnknownOption, EntryState, k)

\* C1: addOption (identifier, shortForm, type, required) appends exactly one
\* option at the end of the registry, holding the four arguments, an empty
\* longForm and isSet = false; so parsing the empty token list on a registry
\* whose latest option was added with required = true returns false.
C1_AddOptionStoresItsArguments ==
    [][/\ \A optArg \in ShortNames, type \in OptionType, req \in BOOLEAN :
            AddOption(OptionId(Len(options) + 1), optArg, type, req) =>
                options' = Append(options,
                    [optionId |-> OptionId(Len(options) + 1), arg |-> optArg,
                     longArg |-> << >>, required |-> req, type |-> type,
                     value |-> VarVoid, isSet |-> FALSE])
       /\ (RequiredCheck /\ arguments = << >> /\ added # << >> /\ added[4]) => ~ok'
      ]_vars

\* C2: after the scan parseArguments appends exactly one message "Argument
\* is required: <getOptionName()>" for each option that is required and not
\* set, in registry order and after every message of the scan, and returns
\* false when there is such an option; a required option that is set gets
\* no message.
C2_RequiredOptionsReported ==
    Done =>
        LET msgs == SplitLines(errorMessage)
            missing == MissingRequired(options)
            n == Len(missing)
            scanned == Len(msgs) - n
        IN  /\ scanned = ScanMessagesUpTo(Len(handled))
            /\ \A k \in 1..scanned : msgs[k][1] # "Argument is required: "
            /\ \A k \in 1..n :
                  msgs[scanned + k] =
                      <<"Argument is required: ">> \o GetOptionName(missing[k])
            /\ (n > 0 => ~ok)

\* C2's case: two required options with different names are left unset
\* after a scan that reported an unknown token
C2_Witness ==
    /\ Done
    /\ Len(options) = 2
    /\ options[1].required /\ ~options[1].isSet
    /\ options[2].required /\ ~options[2].isSet
    /\ GetOptionName(options[1]) # GetOptionName(options[2])
    /\ \E k \in 1..Len(handled) : handled[k].kind = "unknown"

\* the outcome of the call that has returned
Outcome == [options |-> options, errorMessage |-> errorMessage, ok |-> ok]

\* the token at index k was looked at by the scan itself (not consumed as
\* the value of the flag before it) and went through findOption's flag
\* branches, which returned option i
FlagResolvesTo(k, i) ==
    LET st == StateAt(k)
    IN  /\ st.pos = k
        /\ arguments[k] # EndMarker
        /\ FindBranch(arguments[k], st.endOfArguments) # "positional"
        /\ i = FindOption(st.options, arguments[k], st.endOfArguments).found

\* C3: supplying an option's flag a second time in one token list (with its
\* value token when the type takes a value, e.g. [-n, 1, -n, 2]) leaves the
\* value the first-supplied one, and the second occurrence adds no message
\* and changes neither the returned flag nor any other option: the call
\* ends as the call without the second occurrence does.
C3_SecondOccurrenceHasNoEffect ==
    Done =>
        \A k \in 1..Len(arguments), i \in 1..Len(options) :
            ( /\ FlagResolvesTo(k, i)
              /\ ~entry[i].isSet
              /\ StateAt(k).options[i].isSet
              /\ Len(arguments) = (IF options[i].type = OptBoolean THEN k ELSE k + 1) )
            => Outcome = ParseResult(entry, SubSeq(arguments, 1, k - 1),
                                     failOnUnknownOption)

\* C4: every token after a `--` of the list is never matched against a
\* short or long form; the positional rule handles it: it fills the first
\* free positional option in registry order, or is unknown when none is free.
C4_AfterMarkerOnlyPositional ==
    Done =>
        \A k \in 1..Len(arguments), j \in 1..Len(arguments) :
            (k < j /\ handled[k].kind = "marker") =>
                LET h == handled[j]
                IN  \/ /\ h.kind = "positional"
                       /\ Positional(options[h.opt])
                       /\ options[h.opt].value = VarString(arguments[j])
                       /\ \A p \in 1..(h.opt - 1) :
                             Positional(options[p]) => options[p].isSet
                    \/ /\ h.kind = "unknown"
                       /\ \A p \in 1..Len(options) :
                             Positional(options[p]) => options[p].isSet

\* C5: a token that resolves to no option gets "Unknown option: <token>"
\* and makes the call return false in strict mode; otherwise it gets
\* "Ignoring unknown option: <token>" and the call returns true unless a
\* value or path is missing or a required option is left unset.
C5_UnknownOptionReported ==
    Done =>
        LET msgs == SplitLines(errorMessage)
            Unresolved(k) ==
                LET st == StateAt(k)
                IN  /\ st.pos = k
                    /\ arguments[k] # EndMarker
                    /\ FindOption(st.options, arguments[k], st.endOfArguments).found = 0
            unresolved == {k \in 1..Len(arguments) : Unresolved(k)}
        IN  /\ \A k \in unresolved :
                  /\ ScanMessagesUpTo(k) <= Len(msgs)
                  /\ msgs[ScanMessagesUpTo(k)] =
                        (IF failOnUnknownOption THEN <<"Unknown option: ">>
                         ELSE <<"Ignoring unknown option: ">>) \o arguments[k]
            /\ (failOnUnknownOption /\ unresolved # {}) => ~ok
            /\ ~failOnUnknownOption =>
                  (ok <=> /\ \A k \in 1..Len(msgs) :
                                msgs[k][1] \notin {"Missing value for argument ",
                                                   "Missing path for argument "}
                          /\ MissingRequired(options) = << >>)

\* C5's case: a lenient call met an unknown token and returned true
C5_Witness ==
    /\ Done
    /\ ~failOnUnknownOption
    /\ ok
    /\ Len(options) > 0
    /\ \E k \in 1..Len(handled) : handled[k].kind = "unknown"

\* C6: when the last token is scanned as the flag of a not yet set option
\* whose type takes a value, the call returns false and appends "Missing
\* value for argument <token>" ("Missing path ..." for FilePath); the option
\* stays unset with its value unchanged, and a required one also gets its
\* "Argument is required" message.
C6_MissingValueReported ==
    (Done /\ Len(arguments) > 0) =>
        LET n == Len(arguments)
            msgs == SplitLines(errorMessage)
            last == Len(msgs) - Len(MissingRequired(options))
        IN  \A i \in 1..Len(options) :
                ( /\ FlagResolvesTo(n, i)
                  /\ ~StateAt(n).options[i].isSet
                  /\ options[i].type # OptBoolean )
                => /\ ~ok
                   /\ last >= 1
                   /\ msgs[last] =
                         (IF options[i].type = OptFile
                          THEN <<"Missing path for argument ">>
                          ELSE <<"Missing value for argument ">>) \o arguments[n]
                   /\ ~options[i].isSet
                   /\ options[i].value = entry[i].value
                   /\ options[i].required =>
                         \E m \in 1..Len(msgs) :
                            msgs[m] = <<"Argument is required: ">>
                                        \o GetOptionName(options[i])

\* C6's case: the list ends with the flag of a required FilePath option that
\* has a default value, after another token
C6_Witness ==
    /\ Done
    /\ Len(arguments) = 2
    /\ \E i \in 1..Len(options) :
          /\ handled[2] = Handled("missing", i)
          /\ options[i].type = OptFile
          /\ options[i].required
          /\ options[i].value = VarString(<<"d">>)

\* the short and long spellings of the registry are pairwise distinct
DistinctSpellings(opts) ==
    \A i, j \in 1..Len(opts) :
        i # j => /\ opts[i].arg # << >> => opts[i].arg # opts[j].arg
                 /\ opts[i].longArg # << >> => opts[i].longArg # opts[j].longArg

\* the lists made of a spelling of option o and, unless o is Boolean, the
\* value token v
FlagLists(o, v) ==
    LET tail == IF o.type = OptBoolean THEN << >> ELSE <<v>>
    IN  (IF o.arg # << >> THEN {<<<<"-">> \o o.arg>> \o tail} ELSE {})
        \cup (IF o.longArg # << >> THEN {<<<<"-", "-">> \o o.longArg>> \o tail}
              ELSE {})

\* C7: on a fresh parser whose spellings are pairwise distinct, parsing
\* [-<shortForm>] or [--<longForm>] of an option, followed by a value token
\* v unless it is Boolean, sets the option, stores v (true for Boolean, the
\* normalized v for FilePath) and sets no other option.
C7_FlagSetsItsOption ==
    (Done /\ calls = 1 /\ DistinctSpellings(entry)) =>
        \A i \in 1..Len(options), v \in TokenSet :
            arguments \in FlagLists(entry[i], v) =>
                /\ options[i].isSet
                /\ options[i].value =
                      (IF options[i].type = OptBoolean THEN VarBool(TRUE)
                       ELSE IF options[i].type = OptFile
                       THEN VarString(IF v[1] = "/" THEN v
                                      ELSE CurrentWorkingDirectory \o <<"/">> \o v)
                       ELSE VarString(v))
                /\ \A j \in 1..Len(options) : j # i => options[j] = entry[j]

\* C7's case: the second of two options, a FilePath one with a long form
\* only, is given by its long spelling and a relative path
C7_Witness ==
    /\ Done
    /\ Len(options) = 2
    /\ DistinctSpellings(entry)
    /\ options[1].arg = <<"n">>
    /\ options[2].arg = << >> /\ options[2].longArg = <<"n">>
    /\ options[2].type = OptFile
    /\ arguments = <<<<"-", "-", "n">>, <<"x">>>>
    /\ options[2].isSet

\* C8: after parseArguments every FilePath option the call has set holds an
\* absolute path, the supplied token itself when that is absolute and the
\* token resolved against the working directory otherwise, however it got
\* its value (also as a positional option filled by a bare token).
C8_FilePathsNormalized ==
    Done =>
        \A i \in 1..Len(options) :
            (options[i].type = OptFile /\ options[i].isSet /\ ~entry[i].isSet) =>
                /\ options[i].value.kind = "string"
                /\ options[i].value.str[1] = "/"
                /\ \E k \in 1..Len(arguments) :
                      options[i].value.str \in
                          {arguments[k], CurrentWorkingDirectory \o <<"/">> \o arguments[k]}

\* C9: the flag of an unset Boolean option sets the option to true and
\* consumes no following token: the tokens after it are scanned as a list
\* of their own, with nothing changed but that option.
C9_BooleanConsumesNoToken ==
    Done =>
        \A k \in 1..Len(arguments), i \in 1..Len(options) :
            ( /\ FlagResolvesTo(k, i)
              /\ ~StateAt(k).options[i].isSet
              /\ options[i].type = OptBoolean )
            => LET st == StateAt(k)
                   rest == RunScan(SubSeq(arguments, k + 1, Len(arguments)),
                                   failOnUnknownOption,
                                   [st EXCEPT !.pos = 1,
                                              !.options[i].value = VarBool(TRUE),
                                              !.options[i].isSet = TRUE])
                   r == CheckRequired(rest.options, 1, rest.errorMessage, rest.ok)
               IN  /\ options[i].isSet
                   /\ options[i].value = VarBool(TRUE)
                   /\ options = rest.options
                   /\ errorMessage = r.errorMessage
                   /\ ok = r.ok

\* C9's case: a Boolean flag is followed by a bare token, which fills a
\* positional option
C9_Witness ==
    /\ Done
    /\ Len(arguments) = 2
    /\ \E i, j \in 1..Len(options) :
          /\ options[i].type = OptBoolean
          /\ handled[1] = Handled("flag", i)
          /\ handled[2] = Handled("positional", j)
          /\ options[j].value = VarString(arguments[2])

\* the elements of a sequence of messages joined by single newlines
RECURSIVE JoinLines(_)
JoinLines(msgs) ==
    IF msgs = << >> THEN << >>
    ELSE IF Len(msgs) = 1 THEN msgs[1]
    ELSE msgs[1] \o <<NewLine>> \o JoinLines(Tail(msgs))

\* the messages the scan gave for the tokens from index k on, in order
RECURSIVE ScanMessagesFrom(_)
ScanMessagesFrom(k) ==
    IF k > Len(handled) THEN << >>
    ELSE (IF handled[k].kind = "unknown"
          THEN <<(IF failOnUnknownOption THEN <<"Unknown option: ">>
                  ELSE <<"Ignoring unknown option: ">>) \o arguments[k]>>
          ELSE IF handled[k].kind = "missing"
          THEN <<(IF options[handled[k].opt].type = OptFile
                  THEN <<"Missing path for argument ">>
                  ELSE <<"Missing value for argument ">>) \o arguments[k]>>
          ELSE << >>) \o ScanMessagesFrom(k + 1)

\* the messages of the required check, in registry order
RequiredMessages ==
    [k \in 1..Len(MissingRequired(options)) |->
        <<"Argument is required: ">> \o GetOptionName(MissingRequired(options)[k])]

\* C10: after any sequence of parseArguments calls getErrorMessage is the
\* messages of the latest call alone, in the order they were generated and
\* joined by single newlines, and empty when that call gave no message.
C10_BufferHoldsLatestCallOnly ==
    Done => errorMessage = JoinLines(ScanMessagesFrom(1) \o RequiredMessages)

\* C10's case: a second call that gives two messages after a first call
\* that left a different message in the buffer
C10_Witness ==
    /\ Done
    /\ calls = 2
    /\ previousMessage # << >>
    /\ Len(SplitLines(errorMessage)) = 2
    /\ SplitLines(errorMessage)[1] # SplitLines(previousMessage)[1]

\* the texts that open an error message, as opposed to a warning
ErrorPrefixes ==
    {"Unknown option: ", "Missing value for argument ",
     "Missing path for argument ", "Argument is required: "}

\* C11: parseArguments returns false if and only if the call appended at
\* least one error message; so a false return comes with a non-empty buffer
\* and a buffer of "Ignoring unknown option" warnings alone with true.
C11_FalseIffErrorMessage ==
    Done =>
        LET msgs == SplitLines(errorMessage)
        IN  /\ ~ok <=> \E k \in 1..Len(msgs) : msgs[k][1] \in ErrorPrefixes
            /\ ~ok => errorMessage # << >>
            /\ (\A k \in 1..Len(msgs) : msgs[k][1] = "Ignoring unknown option: ")
                  => ok

\* C11's case: a lenient call that gave a warning and then failed on a
\* required option
C11_Witness ==
    /\ Done
    /\ ~ok
    /\ Len(SplitLines(errorMessage)) = 2
    /\ SplitLines(errorMessage)[1][1] = "Ignoring unknown option: "
    /\ SplitLines(errorMessage)[2][1] = "Argument is required: "

\* the first option of opts that the positional rule may fill, 0 if none
FreePositional(opts) ==
    FirstOption({i \in 1..Len(opts) : Positional(opts[i]) /\ ~IsOptionSet(opts[i])})

\* the message a token that resolves to no option gets
UnknownMessage(token) ==
    IF failOnUnknownOption THEN <<"Unknown option: ">> \o token
    ELSE <<"Ignoring unknown option: ">> \o token

\* C12: only the first token "--" is the end-of-arguments marker; every
\* token after it, a later "--" included, is treated as positional: it is
\* stored into the first free positional option, or reported as unknown
\* when none is free, and never skipped.
C12_LaterMarkerIsPositional ==
    Done =>
        \A j \in 1..Len(arguments) :
            LET st == StateAt(j)
                next == StateAt(j + 1)
                free == FreePositional(st.options)
            IN  (st.pos = j /\ st.endOfArguments) =>
                    IF free # 0
                    THEN /\ next.options =
                               [st.options EXCEPT
                                   ![free].value = VarString(arguments[j]),
                                   ![free].isSet = TRUE]
                         /\ next.errorMessage = st.errorMessage
                    ELSE /\ next.options = st.options
                         /\ next.errorMessage =
                               AppendErrorMessage(st.errorMessage,
                                                  UnknownMessage(arguments[j]))

\* the options of the registry that no token of the current call resolved to
\* or filled
AbsentFromCall ==
    {i \in 1..Len(entry) : \A k \in 1..Len(handled) : handled[k].opt # i}

\* the token at index k is the first of the call that spells a flag of
\* option i
FirstOccurrence(k, i) ==
    /\ FlagResolvesTo(k, i)
    /\ i # 0
    /\ \A j \in 1..(k - 1) : ~FlagResolvesTo(j, i)

\* C13: "already set" is judged per call: in a second call on the same
\* parser the first occurrence of a flag assigns the option the value
\* supplied in that call, and an option set only in an earlier call and
\* absent from the current token list counts as unset for the required
\* check of the current call.
C13_SetIsJudgedPerCall ==
    (Done /\ calls = 2) =>
        /\ \A k \in 1..Len(arguments), i \in 1..Len(options) :
              FirstOccurrence(k, i) =>
                  IF options[i].type = OptBoolean
                  THEN options[i].value = VarBool(TRUE)
                  ELSE k < Len(arguments) =>
                          options[i].value =
                              VarString(IF options[i].type = OptFile
                                        THEN NormalizedPath(arguments[k + 1])
                                        ELSE arguments[k + 1])
        /\ \A i \in AbsentFromCall :
              options[i].required =>
                  /\ ~ok
                  /\ \E m \in 1..Len(SplitLines(errorMessage)) :
                        SplitLines(errorMessage)[m] =
                            <<"Argument is required: ">> \o GetOptionName(options[i])

\* the token at index k is one for the positional rule: the scan looks at
\* it, and it has no dash prefix or comes after the end-of-arguments marker
PositionalToken(k) ==
    LET st == StateAt(k)
    IN  /\ st.pos = k
        /\ \/ ~StartsWith(arguments[k], <<"-">>)
           \/ st.endOfArguments

\* the m-th option of opts, in registry order, that the positional rule may
\* fill; 0 when there are fewer
NthFreePositional(opts, m) ==
    LET free == {i \in 1..Len(opts) : Positional(opts[i]) /\ ~IsOptionSet(opts[i])}
        nth == {i \in free : Cardinality({p \in free : p <= i}) = m}
    IN  FirstOption(nth)

\* C14: a token handled by the positional rule (no dash prefix, or any token
\* after the marker) is stored raw into the first free positional option in
\* registry order, so the k-th positional token fills the k-th positional
\* option, whatever the option's type and without consuming the following
\* token; when no positional option is free the token is reported as
\* unknown.
C14_PositionalTokensFillInOrder ==
    Done =>
        \A j \in 1..Len(arguments) :
            PositionalToken(j) =>
                LET m == Cardinality({p \in 1..j : PositionalToken(p)})
                    i == NthFreePositional(entry, m)
                    st == StateAt(j)
                    next == StateAt(j + 1)
                IN  /\ next.pos = j + 1
                    /\ IF i # 0
                       THEN /\ options[i].value = VarString(arguments[j])
                            /\ options[i].isSet
                            /\ next.errorMessage = st.errorMessage
                       ELSE /\ next.options = st.options
                            /\ next.errorMessage =
                                  AppendErrorMessage(st.errorMessage,
                                                     UnknownMessage(arguments[j]))

\* the token at index k is looked at by the scan before the marker, starts
\* with "--", is not the marker, and its remainder is no option's longForm
UnmatchedLongToken(k) ==
    LET st == StateAt(k)
    IN  /\ st.pos = k
        /\ ~st.endOfArguments
        /\ StartsWith(arguments[k], EndMarker)
        /\ arguments[k] # EndMarker
        /\ \A i \in 1..Len(st.options) :
              st.options[i].longArg # Substring(arguments[k], 2)

\* C15: before the marker, a token starting with "--" whose remainder is no
\* option's longForm is an unknown option: it sets no option, neither one
\* whose shortForm is the remainder nor a free positional option.
C15_UnmatchedLongTokenIsUnknown ==
    Done =>
        \A k \in 1..Len(arguments) :
            UnmatchedLongToken(k) =>
                /\ handled[k] = Handled("unknown", 0)
                /\ StateAt(k + 1).options = StateAt(k).options
                /\ StateAt(k + 1).errorMessage =
                      AppendErrorMessage(StateAt(k).errorMessage,
                                         UnknownMessage(arguments[k]))

\* C15's case: "--n" is unknown although one option has the shortForm n and
\* a positional option is free
C15_Witness ==
    /\ Done
    /\ Len(options) = 2
    /\ options[1].arg = <<"n">> /\ options[1].longArg = << >>
    /\ Positional(options[2])
    /\ arguments = << <<"-", "-", "n">> >>
    /\ UnmatchedLongToken(1)
    /\ \A i \in 1..2 : ~options[i].isSet

\* the token spells the short or the long form of option o
Spells(token, o) ==
    \/ o.arg # << >> /\ token = <<"-">> \o o.arg
    \/ o.longArg # << >> /\ token = EndMarker \o o.longArg

\* C16: an option with no short spelling is never matched by a single-dash
\* token: before the marker a token starting with "-" (the bare "-"
\* included) sets only an option whose non-empty shortForm or longForm it
\* spells, so it fills no positional option and no long-only option.
C16_DashTokenSetsOnlyWhatItSpells ==
    Done =>
        \A k \in 1..Len(arguments) :
            LET st == StateAt(k)
                next == StateAt(k + 1)
            IN  (/\ st.pos = k
                 /\ ~st.endOfArguments
                 /\ StartsWith(arguments[k], <<"-">>)
                 /\ arguments[k] # EndMarker) =>
                    \A i \in 1..Len(options) :
                        next.options[i] # st.options[i] =>
                            Spells(arguments[k], st.options[i])

\* some token of the call resolved to option i or filled it
Matched(i) ==
    \E k \in 1..Len(arguments) :
        LET st == StateAt(k)
        IN  /\ st.pos = k
            /\ arguments[k] # EndMarker
            /\ FindOption(st.options, arguments[k], st.endOfArguments).found = i

\* C17: parseArguments changes nothing in the registry except value and
\* isSet of the options it assigns: the number and order of the options and
\* each option's identifier, shortForm, longForm, required and valueType are
\* as before the call, and an option no token matched keeps its value and
\* isSet.
C17_ParseChangesOnlyAssignedValues ==
    Done =>
        /\ Len(options) = Len(entry)
        /\ \A i \in 1..Len(options) :
              /\ options[i].optionId = entry[i].optionId
              /\ options[i].arg = entry[i].arg
              /\ options[i].longArg = entry[i].longArg
              /\ options[i].required = entry[i].required
              /\ options[i].type = entry[i].type
              /\ ~Matched(i) => /\ options[i].value = entry[i].value
                                /\ options[i].isSet = entry[i].isSet

\* C17's case: a call that assigns the first option and matches no token to
\* the second, which keeps its default value
C17_Witness ==
    /\ Done
    /\ Len(options) = 2
    /\ Matched(1) /\ options[1].isSet /\ ~entry[1].isSet
    /\ ~Matched(2)
    /\ options[2].value # VarVoid
    /\ options[2] = entry[2]
    /\ Len(arguments) = 2

\* the token at index k is the flag of option i, which is unset and takes a
\* plain value, and a token follows it
ValueFlagAt(k, i) ==
    /\ FlagResolvesTo(k, i)
    /\ i # 0
    /\ ~IsOptionSet(StateAt(k).options[i])
    /\ entry[i].type \in {OptString, OptInteger, OptDouble}
    /\ k < Len(arguments)

\* C18: when the flag of an unset String, Integer or Double option is
\* followed by a token, exactly that token is stored verbatim whatever its
\* content, and it is not scanned itself: it sets no other option, gives no
\* message and does not switch end-of-arguments.
C18_NextTokenConsumedVerbatim ==
    Done =>
        \A k \in 1..Len(arguments), i \in 1..Len(options) :
            ValueFlagAt(k, i) =>
                LET st == StateAt(k)
                    next == StateAt(k + 1)
                IN  /\ next.pos = k + 2
                    /\ next.options =
                          [st.options EXCEPT
                              ![i].value = VarString(arguments[k + 1]),
                              ![i].isSet = TRUE]
                    /\ next.errorMessage = st.errorMessage
                    /\ next.ok = st.ok
                    /\ next.endOfArguments = st.endOfArguments
                    /\ handled[k + 1] = Handled("value", i)
                    /\ options[i].value = VarString(arguments[k + 1])

\* C18's case: the token after a String option's flag spells the long flag
\* of the second option, which stays unset
C18_Witness ==
    /\ Done
    /\ Len(options) = 2
    /\ options[2].longArg = <<"n">>
    /\ arguments = << <<"-", "n">>, <<"-", "-", "n">> >>
    /\ ValueFlagAt(1, 1)
    /\ options[1].value = VarString(<<"-", "-", "n">>)
    /\ ~options[2].isSet
    /\ errorMessage = << >>

\* option j has a flag, and each of its spellings is also the spelling of an
\* option registered before it
Shadowed(j) ==
    /\ ~Positional(entry[j])
    /\ entry[j].arg # << >> =>
          \E i \in 1..(j - 1) : entry[i].arg = entry[j].arg
    /\ entry[j].longArg # << >> =>
          \E i \in 1..(j - 1) : entry[i].longArg = entry[j].longArg

\* C19: where two or more options share a short or long spelling, a flag
\* token resolves to the first of them in registration order, also after
\* that option is set: the flag assigns none of the later ones, and a
\* repeated flag is absorbed by the first.
C19_SharedSpellingResolvesToFirst ==
    Done =>
        /\ \A k \in 1..Len(arguments), f \in 1..Len(options) :
              FlagResolvesTo(k, f) =>
                  LET st == StateAt(k)
                      next == StateAt(k + 1)
                  IN  /\ \A j \in 1..(f - 1) : ~Spells(arguments[k], entry[j])
                      /\ \A j \in 1..Len(options) :
                            j # f => next.options[j] = st.options[j]
                      /\ IsOptionSet(st.options[f]) =>
                            /\ next.options = st.options
                            /\ next.errorMessage = st.errorMessage
                            /\ next.pos = k + 1
                            /\ handled[k] = Handled("absorbed", f)
        /\ \A j \in 1..Len(options), k \in 1..Len(arguments) :
              (/\ Shadowed(j)
               /\ StateAt(k).pos = k
               /\ ~StateAt(k).endOfArguments
               /\ Spells(arguments[k], entry[j])) =>
                  /\ handled[k].opt \in 1..(j - 1)
                  /\ StateAt(k + 1).options[j] = StateAt(k).options[j]

\* C19's case: two Boolean options with the shortForm n and the flag given
\* twice: the first takes it, then absorbs it, and the second stays unset
C19_Witness ==
    /\ Done
    /\ Len(options) = 2
    /\ options[1].arg = <<"n">> /\ options[2].arg = <<"n">>
    /\ options[2].type = OptBoolean
    /\ arguments = << <<"-", "n">>, <<"-", "n">> >>
    /\ handled = <<Handled("flag", 1), Handled("absorbed", 1)>>
    /\ Shadowed(2)
    /\ options[1].isSet /\ ~options[2].isSet

====
